---- MODULE Spec2Model ----
(***************************************************************************)
(* Model of src/src/mass_add_mongo.py: the buffered intra-batch merge      *)
(* (append_record), the store-side candidate lookup and merge              *)
(* (insert_record_list), the spatial predicate (should_merge_by_distance), *)
(* the merge (merge_records) and the chunked-write loop (upload_hdu_list). *)
(*                                                                         *)
(* Angles are integers in arcseconds.  The code keeps RA/Dec in degrees    *)
(* and the threshold in arcseconds, and pads the query rectangle by the    *)
(* threshold taken as degrees: the model keeps that by padding with        *)
(* ArcsecPerDegree * threshold.  Midpoints (min + max) / 2 are carried     *)
(* doubled (min + max) so that halves stay integers; separations are       *)
(* doubled accordingly.                                                    *)
(***************************************************************************)
EXTENDS Integers, Sequences, FiniteSets

\* ------------------------------------------------------------------ bounds
MaxRows == 3

MaxStored == 2

MaxSep == 2

MaxBuffer == 2

\* rows of the first run when a second run works on the same collection
MaxRaceRows == 1

\* ------------------------------------------------------------------ units
ArcsecPerDegree == 3600

FullTurn == 360 * ArcsecPerDegree

HalfTurn == 180 * ArcsecPerDegree

QuarterTurn == 90 * ArcsecPerDegree

\* Python's None in a coordinate slot (no ra / dec column was seen)
None == 0 - 1000000000

\* Sky positions the rows are drawn from: three on the equator (two of them
\* one arcsecond either side of the RA 0/360 seam) and the north pole as
\* written on the RA 180 meridian.
Points ==
    {[ra |-> 0, dec |-> 0], [ra |-> 1, dec |-> 0], [ra |-> FullTurn - 1, dec |-> 0],
     [ra |-> HalfTurn, dec |-> QuarterTurn]}

\* Positions of the documents earlier runs left in the collection.
StoredPoints == {[ra |-> 0, dec |-> 0], [ra |-> 0, dec |-> QuarterTurn]}

\* The table has both spatial columns, or lacks one of them.
ColumnSets == {{"ra", "dec"}, {"ra"}, {"dec"}}

SeqsUpTo(S, n) == UNION {[1..k -> S] : k \in 0..n}

Abs(x) == IF x < 0 THEN 0 - x ELSE x

Min(a, b) == IF a < b THEN a ELSE b

Max(a, b) == IF a > b THEN a ELSE b

VARIABLES
    args_sep,               \* args.sep, arcseconds
    args_buffer,            \* args.buffer
    cols,                   \* spatial columns the source table has
    n_rows,                 \* len(hdu_record_list)
    source,                 \* the rows of hdu_record_list read so far
    store,                  \* the collection, in insertion order
    next_id,                \* next _id the store hands out
    pc,                     \* position in upload_hdu_list / insert_record_list
    row_index,              \* next row of the for loop at line 204
    record_buffer,
    inserted_record_count,
    total_record_count,
    draining,               \* TRUE once the loop at line 204 has ended
    idx,                    \* position of the for loop at line 259
    new_record,
    cursor,                 \* documents collection.find still has to yield
    final_record_list,
    merged_here,            \* history: store merges into the current new_record
    deleted,                \* history: delete_one calls that removed a document
    written,                \* history: documents inserted by completed flushes
    store0,                 \* history: the collection at start
    other                   \* a second run on the same collection, if any

vars == <<args_sep, args_buffer, cols, n_rows, source, store, next_id, pc, row_index,
          record_buffer, inserted_record_count, total_record_count, draining,
          idx, new_record, cursor, final_record_list, merged_here, deleted,
          written, store0, other>>

\* ------------------------------------------------------------- records
NoCoords == [ra |-> [min |-> None, max |-> None], dec |-> [min |-> None, max |-> None]]

NoRecord == [data |-> <<>>, coords |-> NoCoords]

HasCoords(rec) ==
    /\ rec.coords.ra.min # None
    /\ rec.coords.ra.max # None
    /\ rec.coords.dec.min # None
    /\ rec.coords.dec.max # None

\* generate_record: one record_data entry and the min/max over the ra / dec
\* columns of the row (None where the table has no such column).  n is the
\* row's sequence number, kept to tell rows apart.
generate_record(n, rec, columns) ==
    LET ra == IF "ra" \in columns THEN rec.ra ELSE None
        dec == IF "dec" \in columns THEN rec.dec ELSE None
    IN [data |-> <<[src |-> "new", n |-> n, ra |-> ra, dec |-> dec]>>,
        coords |-> [ra |-> [min |-> ra, max |-> ra],
                    dec |-> [min |-> dec, max |-> dec]]]

\* A document left in the collection by an earlier run.
StoredDoc(k, p) ==
    [id |-> k,
     data |-> <<[src |-> "old", n |-> k, ra |-> p.ra, dec |-> p.dec]>>,
     coords |-> [ra |-> [min |-> p.ra, max |-> p.ra],
                 dec |-> [min |-> p.dec, max |-> p.dec]]]

\* merge_records keeping only the first record's rows
merge_records_first_only(rec1, rec2) ==
    [data |-> rec1.data,
     coords |->
        [ra |-> [min |-> Min(rec1.coords.ra.min, rec2.coords.ra.min),
                 max |-> Min(rec1.coords.ra.max, rec2.coords.ra.max)],
         dec |-> [min |-> Min(rec1.coords.dec.min, rec2.coords.dec.min),
                  max |-> Min(rec1.coords.dec.max, rec2.coords.dec.max)]]]

\* merge_records, lines 326-338: "max" is computed with min().
merge_records(rec1, rec2) ==
    [data |-> rec1.data \o rec2.data,
     coords |->
        [ra |-> [min |-> Min(rec1.coords.ra.min, rec2.coords.ra.min),
                 max |-> Min(rec1.coords.ra.max, rec2.coords.ra.max)],
         dec |-> [min |-> Min(rec1.coords.dec.min, rec2.coords.dec.min),
                  max |-> Min(rec1.coords.dec.max, rec2.coords.dec.max)]]]

\* ------------------------------------------------------- spatial matcher
\* Twice the midpoint of a range (lines 298-301 without the division).
Med2(range) == range.min + range.max

\* Longitude wraps into [0, 360) degrees; doubled.
WrapRa2(x) == x % (2 * FullTurn)

\* Twice the great-circle separation of the two midpoints, in arcseconds
\* (SkyCoord.separation, line 306).  Exact when one point is a pole, when
\* both lie on the equator, or when both lie on one meridian; every record
\* built from Points stays in these cases (OnGrid below).
Separation2(c1, c2) ==
    LET ra1 == WrapRa2(Med2(c1.ra))
        ra2 == WrapRa2(Med2(c2.ra))
        dec1 == Med2(c1.dec)
        dec2 == Med2(c2.dec)
        dra == Min(Abs(ra1 - ra2), 2 * FullTurn - Abs(ra1 - ra2))
    IN IF Abs(dec1) = 2 * QuarterTurn \/ Abs(dec2) = 2 * QuarterTurn
         THEN Abs(dec1 - dec2)
       ELSE IF dec1 = 0 /\ dec2 = 0 THEN dra
       ELSE IF dra = 0 THEN Abs(dec1 - dec2)
       ELSE 2 * HalfTurn

\* is_within_bounds with a closed upper bound
is_within_bounds_closed(angle, lower, upper) == lower <= angle /\ angle <= upper

\* is_within_bounds with the two bounds taken in the other order
is_within_bounds_swapped(angle, lower, upper) == upper <= angle /\ angle < lower

\* Angle.is_within_bounds(lower, upper): lower <= angle < upper
is_within_bounds(angle, lower, upper) == lower <= angle /\ angle < upper

\* should_merge_by_distance, lines 298-312 (both sides doubled)
should_merge_by_distance(rec1, rec2, threshold) ==
    is_within_bounds(Separation2(rec1.coords, rec2.coords),
                     0 - 2 * threshold, 2 * threshold)

\* ---------------------------------------------------------- buffer merger
\* The scan of lines 238-242: index of the first record that matches, 0 if
\* the loop ends without a break.
RECURSIVE FirstMatch(_, _, _, _)
FirstMatch(record, list_of_records, i, threshold) ==
    IF i > Len(list_of_records) THEN 0
    ELSE IF should_merge_by_distance(record, list_of_records[i], threshold) THEN i
    ELSE FirstMatch(record, list_of_records, i + 1, threshold)

\* list.remove(x): drops the first element equal to x
ListRemove(list, x) ==
    LET i == CHOOSE j \in 1..Len(list) :
                 list[j] = x /\ \A k \in 1..(j - 1) : list[k] # x
    IN SubSeq(list, 1, i - 1) \o SubSeq(list, i + 1, Len(list))

\* append_record that removes the partner without merging it
append_record_no_merge(record, list_of_records, threshold) ==
    LET i == FirstMatch(record, list_of_records, 1, threshold)
    IN IF i = 0 THEN Append(list_of_records, record)
       ELSE Append(ListRemove(list_of_records, list_of_records[i]), record)

\* append_record that puts the merged record where the partner was
append_record_in_place(record, list_of_records, threshold) ==
    LET i == FirstMatch(record, list_of_records, 1, threshold)
    IN IF i = 0 THEN Append(list_of_records, record)
       ELSE [list_of_records EXCEPT ![i] = merge_records(record, list_of_records[i])]

\* append_record without the list.remove of line 241
append_record_keep_partner(record, list_of_records, threshold) ==
    LET i == FirstMatch(record, list_of_records, 1, threshold)
    IN IF i = 0 THEN Append(list_of_records, record)
       ELSE Append(list_of_records, merge_records(record, list_of_records[i]))

\* append_record that inserts at the front of the list
append_record_prepend(record, list_of_records, threshold) ==
    LET i == FirstMatch(record, list_of_records, 1, threshold)
    IN IF i = 0 THEN <<record>> \o list_of_records
       ELSE <<merge_records(record, list_of_records[i])>>
                \o ListRemove(list_of_records, list_of_records[i])

\* append_record without the scan of lines 238-242
append_record_never_merge(record, list_of_records, threshold) ==
    Append(list_of_records, record)

\* append_record, lines 238-245
append_record(record, list_of_records, threshold) ==
    LET i == FirstMatch(record, list_of_records, 1, threshold)
    IN IF i = 0 THEN Append(list_of_records, record)
       ELSE Append(ListRemove(list_of_records, list_of_records[i]),
                   merge_records(record, list_of_records[i]))

\* ----------------------------------------------------------- store matcher
\* The query of lines 263-273: the envelope padded by the threshold, the
\* threshold's number being taken as degrees.
Query(rec, threshold) ==
    [ra_min |-> rec.coords.ra.min - ArcsecPerDegree * threshold,
     ra_max |-> rec.coords.ra.max + ArcsecPerDegree * threshold,
     dec_min |-> rec.coords.dec.min - ArcsecPerDegree * threshold,
     dec_max |-> rec.coords.dec.max + ArcsecPerDegree * threshold]

QueryMatches(doc, query) ==
    /\ doc.coords.ra.min <= query.ra_max
    /\ doc.coords.ra.max >= query.ra_min
    /\ doc.coords.dec.min <= query.dec_max
    /\ doc.coords.dec.max >= query.dec_min

\* collection.find(query): the matching documents in natural order
find(collection, query) == SelectSeq(collection, LAMBDA doc : QueryMatches(doc, query))

\* delete_one whose filter matches nothing
delete_one_no_match(collection, document) == collection

\* delete_one whose filter is the coordinates only, applied to every document
delete_one_by_coords(collection, document) ==
    SelectSeq(collection, LAMBDA doc : doc.coords # document.coords)

\* collection.delete_one(document): the filter is the whole document, _id
\* included, so it removes that document if it is still there.
delete_one(collection, document) ==
    SelectSeq(collection, LAMBDA doc : doc # document)

\* insert_many gives every document an _id and appends it
WithIds(records, first_id) ==
    [i \in 1..Len(records) |->
        [id |-> first_id + i - 1, data |-> records[i].data, coords |-> records[i].coords]]

\* ------------------------------------------------------------ orchestrator
\* the flush test without the "0 <" part
BufferFull_unsigned(buffer_flag, n) == buffer_flag <= n

\* the flush test with a strict comparison
BufferFull_strict(buffer_flag, n) == 0 < buffer_flag /\ buffer_flag < n

\* Line 211: 0 < args.buffer <= len(record_buffer)
BufferFull(buffer_flag, n) == 0 < buffer_flag /\ buffer_flag <= n

\* ---------------------------------------------------------- a second run
\* No second run works on the collection.
OtherAbsent == [pc |-> "Absent", new_record |-> NoRecord, cursor |-> <<>>,
                merged |-> 0, written |-> NoRecord]

\* A second run of the program has connected to the collection and is about
\* to read the one row of its source; it runs with --buffer 0 and the same
\* --sep, so its only reconciliation is its drain.
OtherStart == [OtherAbsent EXCEPT !.pc = "Reading"]

\* -------------------------------------------------------------------- Init
Init ==
    /\ args_sep \in 0..MaxSep
    /\ args_buffer \in (0 - 1)..MaxBuffer
    /\ cols \in ColumnSets
    /\ n_rows \in 0..MaxRows
    /\ source = <<>>
    /\ \E ps \in SeqsUpTo(StoredPoints, MaxStored) :
          store = [k \in 1..Len(ps) |-> StoredDoc(k, ps[k])]
    /\ next_id = Len(store) + 1
    /\ store0 = store
    /\ pc = "Reading"
    /\ row_index = 1
    /\ record_buffer = <<>>
    /\ inserted_record_count = 0
    /\ total_record_count = n_rows
    /\ draining = FALSE
    /\ idx = 1
    /\ new_record = NoRecord
    /\ cursor = <<>>
    /\ final_record_list = <<>>
    /\ merged_here = 0
    /\ deleted = 0
    /\ written = <<>>
    /\ other = OtherAbsent

\* ----------------------------------------------------------------- actions
\* should_merge_by_distance adds None to None when a column is missing.
AppendRaises == record_buffer # <<>> /\ cols # {"ra", "dec"}

\* Lines 204-211: build the record, merge it into the buffer, decide to flush.
ReadRow ==
    /\ pc = "Reading"
    /\ row_index <= n_rows
    /\ ~AppendRaises
    /\ \E r \in Points :
          LET record == generate_record(row_index, r, cols) IN
          /\ source' = Append(source, r)
          /\ record_buffer' = append_record(record, record_buffer, args_sep)
          /\ total_record_count' =
                IF FirstMatch(record, record_buffer, 1, args_sep) # 0
                  THEN total_record_count - 1 ELSE total_record_count
    /\ row_index' = row_index + 1
    /\ pc' = IF BufferFull(args_buffer, Len(record_buffer'))
               THEN "Flush" ELSE "Reading"
    /\ idx' = 1
    /\ final_record_list' = <<>>
    /\ UNCHANGED <<other, args_sep, args_buffer, cols, n_rows, store, next_id,
                   inserted_record_count, draining, new_record, cursor,
                   merged_here, deleted, written, store0>>

\* Line 239 with a None coordinate: TypeError, not caught anywhere.
ReadRowTypeError ==
    /\ pc = "Reading"
    /\ row_index <= n_rows
    /\ AppendRaises
    /\ pc' = "Crashed"
    /\ UNCHANGED <<other, args_sep, args_buffer, cols, n_rows, source, store, next_id, row_index,
                   record_buffer, inserted_record_count, total_record_count,
                   draining, idx, new_record, cursor, final_record_list,
                   merged_here, deleted, written, store0>>

\* the loop ends and an empty buffer is not handed to insert_record_list
Exhausted_skips_empty_drain ==
    /\ pc = "Reading"
    /\ row_index > n_rows
    /\ draining' = TRUE
    /\ pc' = IF record_buffer = <<>> THEN "Done" ELSE "Flush"
    /\ idx' = 1
    /\ final_record_list' = <<>>
    /\ UNCHANGED <<other, args_sep, args_buffer, cols, n_rows, source, store, next_id, row_index,
                   record_buffer, inserted_record_count, total_record_count,
                   new_record, cursor, merged_here, deleted, written, store0>>

\* The loop at line 204 ends; line 222 flushes what is left.
Exhausted ==
    /\ pc = "Reading"
    /\ row_index > n_rows
    /\ draining' = TRUE
    /\ pc' = "Flush"
    /\ idx' = 1
    /\ final_record_list' = <<>>
    /\ UNCHANGED <<other, args_sep, args_buffer, cols, n_rows, source, store, next_id, row_index,
                   record_buffer, inserted_record_count, total_record_count,
                   new_record, cursor, merged_here, deleted, written, store0>>

\* Lines 259-277: take the next buffered record, build its query, run it.
Find ==
    /\ pc = "Flush"
    /\ idx <= Len(record_buffer)
    /\ HasCoords(record_buffer[idx])
    /\ new_record' = record_buffer[idx]
    /\ cursor' = find(store, Query(record_buffer[idx], args_sep))
    /\ merged_here' = 0
    /\ pc' = "Compare"
    /\ UNCHANGED <<other, args_sep, args_buffer, cols, n_rows, source, store, next_id, row_index,
                   record_buffer, inserted_record_count, total_record_count,
                   draining, idx, final_record_list, deleted, written, store0>>

\* Lines 263-266 with a None coordinate: TypeError, not caught anywhere.
FindTypeError ==
    /\ pc = "Flush"
    /\ idx <= Len(record_buffer)
    /\ ~HasCoords(record_buffer[idx])
    /\ pc' = "Crashed"
    /\ UNCHANGED <<other, args_sep, args_buffer, cols, n_rows, source, store, next_id, row_index,
                   record_buffer, inserted_record_count, total_record_count,
                   draining, idx, new_record, cursor, final_record_list,
                   merged_here, deleted, written, store0>>

\* Lines 277-281: one candidate of the cursor.
CompareCandidate ==
    /\ pc = "Compare"
    /\ cursor # <<>>
    /\ LET existing_record == Head(cursor) IN
         IF should_merge_by_distance(new_record, existing_record, args_sep)
           THEN /\ new_record' = merge_records(new_record, existing_record)
                /\ total_record_count' = total_record_count - 1
                /\ store' = delete_one(store, existing_record)
                /\ deleted' = deleted + (Len(store) - Len(store'))
                /\ merged_here' = merged_here + 1
           ELSE UNCHANGED <<new_record, total_record_count, store, deleted, merged_here>>
    /\ cursor' = Tail(cursor)
    /\ UNCHANGED <<other, args_sep, args_buffer, cols, n_rows, source, next_id, pc, row_index,
                   record_buffer, inserted_record_count, draining, idx,
                   final_record_list, written, store0>>

\* Line 283, the cursor being exhausted.
AppendFinal ==
    /\ pc = "Compare"
    /\ cursor = <<>>
    /\ final_record_list' = Append(final_record_list, new_record)
    /\ idx' = idx + 1
    /\ new_record' = NoRecord
    /\ merged_here' = 0
    /\ pc' = "Flush"
    /\ UNCHANGED <<other, args_sep, args_buffer, cols, n_rows, source, store, next_id, row_index,
                   record_buffer, inserted_record_count, total_record_count,
                   draining, cursor, deleted, written, store0>>

\* Lines 285, 177-178 and 214-219 / 222-225: the batch is accepted.  The
\* progress line of lines 215-218 divides by total_record_count: when that
\* is 0 the ZeroDivisionError is not caught.
InsertOk ==
    /\ pc = "Flush"
    /\ idx > Len(record_buffer)
    /\ final_record_list # <<>>
    /\ store' = store \o WithIds(final_record_list, next_id)
    /\ written' = written \o WithIds(final_record_list, next_id)
    /\ next_id' = next_id + Len(final_record_list)
    /\ inserted_record_count' = inserted_record_count + Len(final_record_list)
    /\ final_record_list' = <<>>
    /\ idx' = 1
    /\ IF draining
         THEN pc' = "Done" /\ UNCHANGED record_buffer
         ELSE IF total_record_count = 0
           THEN pc' = "Crashed" /\ UNCHANGED record_buffer
           ELSE pc' = "Reading" /\ record_buffer' = <<>>
    /\ UNCHANGED <<other, args_sep, args_buffer, cols, n_rows, source, row_index,
                   total_record_count, draining, new_record, cursor,
                   merged_here, deleted, store0>>

\* Lines 179-182: OperationFailure, exit(1).  An ordered insert_many stops at
\* the first document the store rejects; those before it stay inserted.
InsertFail ==
    /\ pc = "Flush"
    /\ idx > Len(record_buffer)
    /\ final_record_list # <<>>
    /\ \E k \in 0..(Len(final_record_list) - 1) :
          /\ store' = store \o WithIds(SubSeq(final_record_list, 1, k), next_id)
          /\ next_id' = next_id + k
    /\ pc' = "Failed"
    /\ UNCHANGED <<other, args_sep, args_buffer, cols, n_rows, source, row_index, record_buffer,
                   inserted_record_count, total_record_count, draining, idx,
                   new_record, cursor, final_record_list, merged_here, deleted,
                   written, store0>>

\* Line 177 with an empty list: insert_many raises TypeError ("documents must
\* be a non-empty list"), which line 179 does not catch.
InsertEmpty ==
    /\ pc = "Flush"
    /\ idx > Len(record_buffer)
    /\ final_record_list = <<>>
    /\ pc' = "Crashed"
    /\ UNCHANGED <<other, args_sep, args_buffer, cols, n_rows, source, store, next_id, row_index,
                   record_buffer, inserted_record_count, total_record_count,
                   draining, idx, new_record, cursor, final_record_list,
                   merged_here, deleted, written, store0>>

Next ==
    \/ ReadRow
    \/ ReadRowTypeError
    \/ Exhausted
    \/ Find
    \/ FindTypeError
    \/ CompareCandidate
    \/ AppendFinal
    \/ InsertOk
    \/ InsertFail
    \/ InsertEmpty

Spec == Init /\ [][Next]_vars

\* ------------------------------------------- two runs on one collection
mainvars == <<args_sep, args_buffer, cols, n_rows, source, pc, row_index,
              record_buffer, inserted_record_count, total_record_count, draining,
              idx, new_record, cursor, final_record_list, merged_here, deleted,
              written, store0>>

\* The first run is the program as above with at most MaxRaceRows rows; the
\* second run starts next to it.  Both sources have the two spatial columns.
InitConc ==
    /\ args_sep \in 0..MaxSep
    /\ args_buffer \in (0 - 1)..MaxBuffer
    /\ cols = {"ra", "dec"}
    /\ n_rows \in 0..MaxRaceRows
    /\ source = <<>>
    /\ \E ps \in SeqsUpTo(StoredPoints, MaxStored) :
          store = [k \in 1..Len(ps) |-> StoredDoc(k, ps[k])]
    /\ next_id = Len(store) + 1
    /\ store0 = store
    /\ pc = "Reading"
    /\ row_index = 1
    /\ record_buffer = <<>>
    /\ inserted_record_count = 0
    /\ total_record_count = n_rows
    /\ draining = FALSE
    /\ idx = 1
    /\ new_record = NoRecord
    /\ cursor = <<>>
    /\ final_record_list = <<>>
    /\ merged_here = 0
    /\ deleted = 0
    /\ written = <<>>
    /\ other = OtherStart

\* Second run, lines 204-222 and 259-277: its row is read and buffered, the
\* loop ends, the drain builds the query of the record and runs it.
OtherFind ==
    /\ other.pc = "Reading"
    /\ \E r \in Points :
          LET record == generate_record(1, r, {"ra", "dec"}) IN
          other' = [other EXCEPT !.pc = "Compare",
                                 !.new_record = record,
                                 !.cursor = find(store, Query(record, args_sep))]
    /\ UNCHANGED <<mainvars, store, next_id>>

\* Second run, lines 277-281: one candidate of its cursor.
OtherCompareCandidate ==
    /\ other.pc = "Compare"
    /\ other.cursor # <<>>
    /\ LET existing_record == Head(other.cursor) IN
         IF should_merge_by_distance(other.new_record, existing_record, args_sep)
           THEN /\ store' = delete_one(store, existing_record)
                /\ other' = [other EXCEPT
                                !.new_record = merge_records(other.new_record, existing_record),
                                !.cursor = Tail(other.cursor),
                                !.merged = other.merged + 1]
           ELSE /\ store' = store
                /\ other' = [other EXCEPT !.cursor = Tail(other.cursor)]
    /\ UNCHANGED <<mainvars, next_id>>

\* Second run, lines 283-285 and 177-178: its batch of one is accepted.
OtherInsertOk ==
    /\ other.pc = "Compare"
    /\ other.cursor = <<>>
    /\ store' = store \o WithIds(<<other.new_record>>, next_id)
    /\ next_id' = next_id + 1
    /\ other' = [other EXCEPT !.pc = "Done",
                              !.written = WithIds(<<other.new_record>>, next_id)[1]]
    /\ UNCHANGED mainvars

\* Second run, lines 179-182: its batch is rejected, exit(1).
OtherInsertFail ==
    /\ other.pc = "Compare"
    /\ other.cursor = <<>>
    /\ other' = [other EXCEPT !.pc = "Failed"]
    /\ UNCHANGED <<mainvars, store, next_id>>

\* ReadRowTypeError and FindTypeError need a missing column: they are never
\* enabled from InitConc.
NextConc ==
    \/ ReadRow
    \/ Exhausted
    \/ Find
    \/ CompareCandidate
    \/ AppendFinal
    \/ InsertOk
    \/ InsertFail
    \/ InsertEmpty
    \/ OtherFind
    \/ OtherCompareCandidate
    \/ OtherInsertOk
    \/ OtherInsertFail

SpecConc == InitConc /\ [][NextConc]_vars

\* ------------------------------------------------------------ type / domain
TypeOK ==
    /\ pc \in {"Reading", "Flush", "Compare", "Done", "Failed", "Crashed"}
    /\ row_index = Len(source) + 1
    /\ row_index \in 1..(n_rows + 1)
    /\ idx \in 1..(Len(record_buffer) + 1)
    /\ total_record_count \in Int
    /\ inserted_record_count \in Nat

\* Every midpoint the matcher is given lies on the equator or at a pole,
\* where Separation2 is exact.
OnGridCoords(c) ==
    /\ Med2(c.dec) \in {0, 2 * QuarterTurn}
    /\ c.ra.min <= c.ra.max
    /\ c.dec.min <= c.dec.max

OnGrid ==
    /\ \A i \in 1..Len(store) : OnGridCoords(store[i].coords)
    /\ \A i \in 1..Len(record_buffer) :
          HasCoords(record_buffer[i]) => OnGridCoords(record_buffer[i].coords)
    /\ HasCoords(new_record) => OnGridCoords(new_record.coords)

\* ----------------------------------------------------------- envelopes
\* The union bounding rectangle of two envelopes.
UnionRect(c1, c2) ==
    [ra |-> [min |-> Min(c1.ra.min, c2.ra.min), max |-> Max(c1.ra.max, c2.ra.max)],
     dec |-> [min |-> Min(c1.dec.min, c2.dec.min), max |-> Max(c1.dec.max, c2.dec.max)]]

MinOf(S) == CHOOSE x \in S : \A y \in S : x <= y

MaxOf(S) == CHOOSE x \in S : \A y \in S : x >= y

\* The bounding rectangle of the rows a provenance list names.
RectOfRows(data) ==
    LET ras == {data[i].ra : i \in 1..Len(data)}
        decs == {data[i].dec : i \in 1..Len(data)}
    IN [ra |-> [min |-> MinOf(ras), max |-> MaxOf(ras)],
        dec |-> [min |-> MinOf(decs), max |-> MaxOf(decs)]]

\* The record the loop at line 204 builds in this step.
NextRecord == generate_record(row_index, source'[row_index], cols)

\* A buffer merge happens in this step (ReadRow found a partner).
BufferMergeStep ==
    /\ pc = "Reading"
    /\ row_index' = row_index + 1
    /\ FirstMatch(NextRecord, record_buffer, 1, args_sep) # 0

\* The buffered record a buffer merge takes out.
BufferPartner == record_buffer[FirstMatch(NextRecord, record_buffer, 1, args_sep)]

\* A store merge happens in this step (CompareCandidate found a match).
StoreMergeStep ==
    /\ pc = "Compare"
    /\ cursor # <<>>
    /\ merged_here' = merged_here + 1

\* The records the program holds outside the step's own operands.
HeldRecords ==
    {record_buffer[i] : i \in 1..Len(record_buffer)} \cup {store[i] : i \in 1..Len(store)}

\* merge(merge(A,B),C) and merge(C,merge(A,B)) against the three-way union
ThreeWayUnion(A, B, C) ==
    LET u3 == UnionRect(UnionRect(A.coords, B.coords), C.coords)
    IN /\ merge_records(merge_records(A, B), C).coords = u3
       /\ merge_records(C, merge_records(A, B)).coords = u3
       /\ merge_records(A, merge_records(B, C)).coords = u3

\* C1: the envelope of merge(A,B) is the union bounding rectangle of the two
\* envelopes (min of the minimums, max of the maximums), and merging a third
\* record C in any order or grouping gives the union rectangle of all three.
\* Stated of every merge the pipeline performs, C ranging over the records
\* it holds at that moment.
C1_MergeEnvelopeIsUnion ==
    [][/\ BufferMergeStep =>
            /\ record_buffer'[Len(record_buffer')].coords =
                  UnionRect(NextRecord.coords, BufferPartner.coords)
            /\ \A C \in HeldRecords : ThreeWayUnion(NextRecord, BufferPartner, C)
       /\ StoreMergeStep =>
            /\ new_record'.coords = UnionRect(new_record.coords, Head(cursor).coords)
            /\ \A C \in HeldRecords : ThreeWayUnion(new_record, Head(cursor), C)]_vars

\* C2: in every reachable state, every record in the buffer, every record on
\* its way to the store and every record in the store has an envelope equal
\* to the exact bounding rectangle of the RA/Dec values of the rows in its
\* provenance.
EnvelopeExact(rec) == HasCoords(rec) /\ rec.data # <<>> => rec.coords = RectOfRows(rec.data)

C2_EnvelopeIsBoundingRectangle ==
    /\ \A i \in 1..Len(record_buffer) : EnvelopeExact(record_buffer[i])
    /\ \A i \in 1..Len(final_record_list) : EnvelopeExact(final_record_list[i])
    /\ \A i \in 1..Len(store) : EnvelopeExact(store[i])
    /\ EnvelopeExact(new_record)

\* ------------------------------------------------------------ provenance
RECURSIVE ConcatData(_)
ConcatData(records) ==
    IF records = <<>> THEN <<>>
    ELSE Head(records).data \o ConcatData(Tail(records))

\* The records of the flush in progress that are not in the store yet.
Pending ==
    IF pc = "Reading" THEN record_buffer
    ELSE IF pc = "Flush"
      THEN final_record_list \o SubSeq(record_buffer, idx, Len(record_buffer))
    ELSE IF pc = "Compare"
      THEN final_record_list \o <<new_record>>
               \o SubSeq(record_buffer, idx + 1, Len(record_buffer))
    ELSE <<>>

\* Rows the run has read so far, and rows the collection held at start.
RowsRead == {generate_record(n, source[n], cols).data[1] : n \in 1..(row_index - 1)}

RowsAtStart == UNION {{store0[i].data[j] : j \in 1..Len(store0[i].data)} : i \in 1..Len(store0)}

Range(seq) == {seq[i] : i \in 1..Len(seq)}

NoDuplicates(seq) == \A i, j \in 1..Len(seq) : seq[i] = seq[j] => i = j

Running == pc \in {"Reading", "Flush", "Compare", "Done"}

\* C3: merge(A,B).provenance is A's provenance followed by B's (so the
\* lengths add), and across buffer merges and store merges no provenance
\* entry is dropped and none is duplicated: while the run is alive, the rows
\* held by the store and by the flush in progress are exactly the rows read
\* and the rows the store held at start, each once.
ProvenanceConserved ==
    Running =>
        LET held == ConcatData(store) \o ConcatData(Pending)
        IN /\ Range(held) = RowsRead \cup RowsAtStart
           /\ NoDuplicates(held)

MergeConcatenates ==
    /\ BufferMergeStep =>
          /\ record_buffer'[Len(record_buffer')].data =
                NextRecord.data \o BufferPartner.data
          /\ Len(record_buffer'[Len(record_buffer')].data) =
                Len(NextRecord.data) + Len(BufferPartner.data)
    /\ StoreMergeStep =>
          /\ new_record'.data = new_record.data \o Head(cursor).data
          /\ Len(new_record'.data) = Len(new_record.data) + Len(Head(cursor).data)

C3_ProvenanceConserved == []ProvenanceConserved /\ [][MergeConcatenates]_vars

\* a store merge has put an old row behind new ones, after a buffer merge
C3_Witness ==
    /\ pc = "Compare"
    /\ merged_here = 1
    /\ Len(new_record.data) = 3
    /\ new_record.data[3].src = "old"

\* C4: when the run reaches Done (no store failure), every source row and
\* every row held by the store at start is in the provenance of exactly one
\* store record.
C4_NoRowLostAtDone ==
    pc = "Done" =>
        /\ \A row \in RowsRead \cup RowsAtStart :
              Cardinality({<<i, j>> \in (1..Len(store)) \X (1..(MaxRows + MaxStored + 2)) :
                              j <= Len(store[i].data) /\ store[i].data[j] = row}) = 1
        /\ row_index = n_rows + 1

\* Done after a buffer merge and a store merge that deleted a document
C4_Witness ==
    /\ pc = "Done"
    /\ deleted > 0
    /\ total_record_count < n_rows - deleted
    /\ Len(store) >= 2

\* ------------------------------------------------------------- matching
\* One candidate of the cursor is being compared in this step.
CompareStep == pc = "Compare" /\ cursor # <<>>

\* A row is being appended to the buffer in this step.
AppendStep == pc = "Reading" /\ row_index' = row_index + 1

\* Some buffered record lies within / strictly within the threshold of rec.
SomeBufferedWithin(rec) ==
    \E i \in 1..Len(record_buffer) :
        Separation2(rec.coords, record_buffer[i].coords) <= 2 * args_sep

SomeBufferedStrictlyWithin(rec) ==
    \E i \in 1..Len(record_buffer) :
        Separation2(rec.coords, record_buffer[i].coords) < 2 * args_sep

\* C5 as claimed: matches(a, b, threshold) is true if and only if the
\* separation of the two midpoints is less than or equal to the threshold,
\* true in particular when it equals the threshold.  Observed on every
\* comparison the pipeline makes: the store comparison merges, and the
\* buffer scan finds a partner, exactly when the separation is <= threshold.
C5_MatchesIffAtMostThreshold ==
    [][/\ CompareStep =>
            ((merged_here' = merged_here + 1) <=>
                Separation2(new_record.coords, Head(cursor).coords) <= 2 * args_sep)
       /\ AppendStep =>
            ((total_record_count' = total_record_count - 1) <=>
                SomeBufferedWithin(NextRecord))]_vars

\* C5 amended: matches(a, b, threshold) is true if and only if the
\* separation of the two midpoints is strictly less than the threshold; at a
\* separation equal to the threshold it is false.
C5_MatchesIffBelowThreshold ==
    [][/\ CompareStep =>
            ((merged_here' = merged_here + 1) <=>
                Separation2(new_record.coords, Head(cursor).coords) < 2 * args_sep)
       /\ AppendStep =>
            ((total_record_count' = total_record_count - 1) <=>
                SomeBufferedStrictlyWithin(NextRecord))]_vars

\* two rows exactly one threshold apart were compared and kept apart
C5_Witness ==
    /\ pc = "Reading"
    /\ args_sep > 0
    /\ row_index = 3
    /\ Len(record_buffer) = 2
    /\ Separation2(record_buffer[1].coords, record_buffer[2].coords) = 2 * args_sep

\* C6: with threshold 0 no pair of records matches, identical coordinates
\* included: the buffer holds one record per appended row, no merge is
\* performed, and reconciliation deletes no store record.
C6_ZeroThresholdIsolation ==
    args_sep = 0 =>
        /\ total_record_count = n_rows
        /\ deleted = 0
        /\ SubSeq(store, 1, Len(store0)) = store0
        /\ merged_here = 0
        /\ pc \in {"Reading", "Flush", "Compare"} =>
              Len(record_buffer) = (row_index - 1) - inserted_record_count
        /\ \A i \in 1..Len(record_buffer) : Len(record_buffer[i].data) = 1
        /\ \A i \in 1..Len(store) : Len(store[i].data) = 1

\* two rows at one position were buffered, reconciled against a stored
\* document at that position, and written
C6_Witness ==
    /\ args_sep = 0
    /\ pc = "Done"
    /\ Len(record_buffer) = 2
    /\ record_buffer[1].coords = record_buffer[2].coords
    /\ \E i \in 1..Len(store0) : store0[i].coords = record_buffer[1].coords

\* C7: append scans the buffer once in order; the first buffered record that
\* matches is removed and merged with the incoming record and the result is
\* appended at the end, otherwise the incoming record is appended unchanged.
\* The length is unchanged on a match and grows by one otherwise; the other
\* buffered records keep their value and relative order.
Matching(rec) ==
    {i \in 1..Len(record_buffer) :
        should_merge_by_distance(rec, record_buffer[i], args_sep)}

C7_AppendMergesFirstMatch ==
    [][AppendStep =>
         LET m == Matching(NextRecord)
             n == Len(record_buffer)
         IN IF m = {}
              THEN /\ record_buffer' = Append(record_buffer, NextRecord)
                   /\ Len(record_buffer') = n + 1
              ELSE LET first == MinOf(m) IN
                   /\ Len(record_buffer') = n
                   /\ record_buffer'[n] = merge_records(NextRecord, record_buffer[first])
                   /\ \A j \in 1..(first - 1) : record_buffer'[j] = record_buffer[j]
                   /\ \A j \in (first + 1)..n : record_buffer'[j - 1] = record_buffer[j]]_vars

\* row 3 merged with row 1 while row 2, between them, stayed as it was
C7_Witness ==
    /\ pc = "Reading"
    /\ Len(record_buffer) = 2
    /\ Len(record_buffer[1].data) = 1
    /\ record_buffer[1].data[1].n = 2
    /\ Len(record_buffer[2].data) = 2
    /\ record_buffer[2].data[1].n = 3
    /\ record_buffer[2].data[2].n = 1

\* -------------------------------------------------------- reconciliation
\* C8 as claimed: in one reconciliation pass at most one store record is
\* merged into (and deleted for) each buffered record.
C8_AtMostOneStoreMerge == merged_here <= 1

\* C8 amended: in one reconciliation pass every store candidate that matches
\* the buffered record (as merged so far) when it is compared is merged into
\* it and deleted, so several store records can be merged into one buffered
\* record; a candidate that does not match is left in the store.
C8_EveryMatchingCandidateMerged ==
    [][CompareStep =>
         LET existing == Head(cursor) IN
         IF should_merge_by_distance(new_record, existing, args_sep)
           THEN /\ merged_here' = merged_here + 1
                /\ new_record' = merge_records(new_record, existing)
                /\ existing \notin Range(store')
                /\ Len(store') = Len(store) - 1
                /\ deleted' = deleted + 1
           ELSE /\ merged_here' = merged_here
                /\ new_record' = new_record
                /\ store' = store]_vars

\* two store records were merged into one buffered record
C8_Witness ==
    /\ pc = "Compare"
    /\ merged_here = 2
    /\ deleted >= 2

\* C9: the candidate query has no false negatives: a persisted record that
\* matches the buffered record the query is built for is returned by the
\* query, near the RA 0/360 seam and near the poles as elsewhere.
C9_QueryHasNoFalseNegatives ==
    pc = "Flush" /\ idx <= Len(record_buffer) /\ HasCoords(record_buffer[idx]) =>
        \A i \in 1..Len(store) :
            should_merge_by_distance(record_buffer[idx], store[i], args_sep) =>
                QueryMatches(store[i], Query(record_buffer[idx], args_sep))

\* C10: if a batch write fails, the run ends in Failed and every record an
\* earlier flush of the run inserted is still in the store, unchanged.
C10_EarlierBatchesSurviveFailure ==
    pc = "Failed" => \A i \in 1..Len(written) : written[i] \in Range(store)

\* ------------------------------------------------------------------- C11
\* C11: a source without an RA or a Dec column does not abort the run: once
\* a row of such a source has been read the run never dies of an uncaught
\* exception, and the records it buffers stay unmerged singletons.
C11_MissingColumnsDoNotAbort ==
    cols # {"ra", "dec"} /\ source # <<>> =>
        /\ pc # "Crashed"
        /\ \A i \in 1..Len(record_buffer) : Len(record_buffer[i].data) = 1

\* ------------------------------------------------------------------- C12
\* C12: with a source that has both spatial columns and a store that accepts
\* every batch, the run never dies of an uncaught exception on its way to
\* Done: it ends in Done after the final reconcile-and-write pass.
C12_DrainReachesDone ==
    cols = {"ra", "dec"} => pc # "Crashed"

\* ------------------------------------------------------------------- C13
\* C13: with a buffer flag of zero or less, nothing is queried, deleted or
\* inserted while rows are being read, every row read stays in the buffer,
\* and the one reconcile-and-write pass is the drain, which writes the whole
\* buffer as one batch.
C13_NoFlushBeforeDrain ==
    args_buffer <= 0 =>
        /\ ~draining =>
              /\ pc \in {"Reading", "Crashed"}
              /\ store = store0
              /\ written = <<>>
              /\ deleted = 0
              /\ inserted_record_count = 0
        /\ pc = "Reading" => Len(ConcatData(record_buffer)) = row_index - 1
        /\ pc = "Done" =>
              /\ inserted_record_count = Len(record_buffer)
              /\ Len(written) = Len(record_buffer)

\* a run with a negative buffer flag drained two buffered records into a
\* store that was not empty
C13_Witness ==
    /\ args_buffer < 0
    /\ pc = "Done"
    /\ Len(record_buffer) >= 2
    /\ store0 # <<>>
    /\ Len(written) = Len(record_buffer)

\* ------------------------------------------------------------------- C14
\* C14: with a positive flush threshold N the buffer never holds more than N
\* records, and whenever the loop is about to read a row (or to leave the
\* loop) it holds fewer than N: a buffer that reached N was reconciled,
\* written and reset before the next read.
C14_BufferBelowThresholdAtRead ==
    /\ [](args_buffer > 0 =>
            /\ Len(record_buffer) <= args_buffer
            /\ pc = "Reading" => Len(record_buffer) < args_buffer)
    /\ [][args_buffer > 0 /\ AppendStep =>
            /\ Len(record_buffer) < args_buffer
            /\ Len(record_buffer') >= args_buffer => pc' = "Flush"]_vars
    /\ [][args_buffer > 0 /\ pc = "Flush" /\ pc' = "Reading" =>
            record_buffer' = <<>> /\ Len(store') = Len(store) + Len(record_buffer)]_vars

\* a buffer of two was flushed and reset, and the next row is about to be read
C14_Witness ==
    /\ args_buffer = 2
    /\ pc = "Reading"
    /\ record_buffer = <<>>
    /\ Len(written) = 2
    /\ row_index <= n_rows

\* ------------------------------------------------------------------- C15
\* a flush ends: the batch has been inserted
InsertStep == pc = "Flush" /\ pc' \in {"Reading", "Done"}

\* merges of the run so far that took place in the buffer: every merge
\* lowers total_record_count, and the store merges are the deletes
BufferMerges == (n_rows - total_record_count) - deleted

\* C15: a flush writes one record per record of the buffer at flush time and
\* the count it adds to the inserted counter is the number of records it
\* inserted; the records written and still buffered are the rows read minus
\* the merges that took place in the buffer.
C15_FlushWritesOnePerBufferedRecord ==
    /\ [][InsertStep =>
            /\ Len(final_record_list) = Len(record_buffer)
            /\ Len(store') = Len(store) + Len(record_buffer)
            /\ Len(written') = Len(written) + Len(record_buffer)
            /\ inserted_record_count' = inserted_record_count + Len(record_buffer)]_vars
    /\ [](pc \in {"Reading", "Flush", "Compare"} =>
            inserted_record_count + Len(record_buffer) = (row_index - 1) - BufferMerges)
    /\ [](pc = "Done" => inserted_record_count = (row_index - 1) - BufferMerges)

\* three rows were buffered, two of them merged, and two records were written
C15_Witness ==
    /\ pc = "Done"
    /\ row_index = 4
    /\ BufferMerges = 1
    /\ Len(record_buffer) = 2
    /\ Len(written) = 2
    /\ inserted_record_count = 2

\* ------------------------------------------------------------------- C16
\* C16: a store record is deleted only when it is the candidate the query
\* returned and it matches the buffered record; a candidate that does not
\* match leaves the store and the record alone, and a record that met no
\* matching candidate is written as it was buffered, store untouched.
C16_DeleteOnlyMatchedCandidates ==
    /\ [](pc = "Compare" =>
            \A i \in 1..Len(cursor) :
                QueryMatches(cursor[i], Query(record_buffer[idx], args_sep)))
    /\ [][Range(store) \ Range(store') # {} =>
            /\ CompareStep
            /\ should_merge_by_distance(new_record, Head(cursor), args_sep)
            /\ Range(store) \ Range(store') = {Head(cursor)}
            /\ Len(store') = Len(store) - 1]_vars
    /\ [][CompareStep /\ ~should_merge_by_distance(new_record, Head(cursor), args_sep) =>
            store' = store /\ new_record' = new_record /\ deleted' = deleted]_vars
    /\ [][pc = "Compare" /\ cursor = <<>> /\ merged_here = 0 =>
            /\ final_record_list' = Append(final_record_list, record_buffer[idx])
            /\ store' = store
            /\ deleted' = deleted]_vars

\* the first record of a flush met a store that holds records, its query
\* returned none of them, and it went into the batch as it was buffered
C16_Witness ==
    /\ pc = "Flush"
    /\ idx = 2
    /\ final_record_list = <<record_buffer[1]>>
    /\ store # <<>>
    /\ store = store0
    /\ deleted = 0
    /\ find(store, Query(record_buffer[1], args_sep)) = <<>>

\* ------------------------------------------------------------------- C17
\* thresholds the matcher is asked about, negative ones included (--sep is
\* an unchecked float)
Thresholds == (0 - MaxSep)..(MaxSep + 1)

\* pairs of records the matcher is asked about when the drain starts: the
\* first record of the buffer with each candidate of its query, and with
\* each other record of the buffer
MatcherInputs ==
    IF draining /\ pc = "Compare" /\ idx = 1 /\ merged_here = 0
                /\ new_record = record_buffer[1]
      THEN {<<new_record, B>> : B \in Range(cursor) \cup Range(record_buffer)}
      ELSE {}

\* C17: the matcher is monotone in the threshold: two records that match at
\* a threshold match at every larger threshold.
C17_ThresholdMonotone ==
    \A pair \in MatcherInputs :
        \A t1 \in Thresholds :
            should_merge_by_distance(pair[1], pair[2], t1) =>
                \A t2 \in Thresholds :
                    t1 <= t2 => should_merge_by_distance(pair[1], pair[2], t2)

\* two buffered records one arcsecond apart: no match at 1, a match at 2 and
\* at 3
C17_Witness ==
    /\ draining
    /\ pc = "Compare"
    /\ idx = 1
    /\ new_record = record_buffer[1]
    /\ Len(record_buffer) = 2
    /\ HasCoords(record_buffer[1])
    /\ HasCoords(record_buffer[2])
    /\ ~should_merge_by_distance(record_buffer[1], record_buffer[2], 1)
    /\ should_merge_by_distance(record_buffer[1], record_buffer[2], 2)
    /\ should_merge_by_distance(record_buffer[1], record_buffer[2], 3)

\* ------------------------------------------------------------------- C18
\* no buffered record is the result of a merge
Singletons == \A i \in 1..Len(record_buffer) : Len(record_buffer[i].data) = 1

\* the rows of seq2 start with the rows of seq1
StartsWith(seq2, seq1) ==
    Len(seq1) <= Len(seq2) /\ SubSeq(seq2, 1, Len(seq1)) = seq1

\* C18: while no buffered record is the result of a merge the buffer lists
\* the rows read since the last flush in the order they were read; the batch
\* a flush builds and inserts lists its records in the order of the buffer.
C18_OrderPreserved ==
    /\ [](pc \in {"Reading", "Flush", "Compare"} /\ Singletons =>
            \A i \in 1..Len(record_buffer) :
                /\ record_buffer[i].data[1].src = "new"
                /\ record_buffer[i].data[1].n = (row_index - 1) - Len(record_buffer) + i)
    /\ [](pc \in {"Flush", "Compare"} =>
            /\ Len(final_record_list) <= Len(record_buffer)
            /\ \A i \in 1..Len(final_record_list) :
                  StartsWith(final_record_list[i].data, record_buffer[i].data))
    /\ [][InsertStep =>
            \A i \in 1..Len(record_buffer) :
                StartsWith(store'[Len(store) + i].data, record_buffer[i].data)]_vars

\* a batch of two unmerged records was written in the order the rows were
\* read
C18_Witness ==
    /\ pc = "Done"
    /\ Len(record_buffer) = 2
    /\ Singletons
    /\ Len(written) = 2
    /\ written[1].data[1].n = 1
    /\ written[2].data[1].n = 2

\* ------------------------------------------------------------------- C20
\* C20: with a positive threshold no two distinct records of the buffer
\* match each other.
C20_BufferPairwiseDeduplicated ==
    args_sep > 0 /\ cols = {"ra", "dec"} =>
        \A i, j \in 1..Len(record_buffer) :
            i # j => ~should_merge_by_distance(record_buffer[i], record_buffer[j], args_sep)

\* C20, amended: with a positive threshold a record that an append left
\* unmerged matches no other record of the buffer; a record an append
\* produced by a merge is not compared again and may match another one.
C20_UnmergedAppendMatchesNone ==
    [][AppendStep /\ args_sep > 0 /\ HasCoords(NextRecord) =>
          LET n == Len(record_buffer')
              last == record_buffer'[n]
          IN  /\ n >= 1
              /\ Len(last.data) = 1 =>
                    \A j \in 1..(n - 1) :
                        ~should_merge_by_distance(last, record_buffer'[j], args_sep)
              /\ Len(last.data) > 1 => n <= Len(record_buffer)]_vars

\* an append left its record unmerged next to a buffered record that lies
\* exactly at the threshold
C20_Witness ==
    /\ args_sep > 0
    /\ pc = "Reading"
    /\ Len(record_buffer) = 2
    /\ Singletons
    /\ HasCoords(record_buffer[1])
    /\ HasCoords(record_buffer[2])
    /\ Separation2(record_buffer[1].coords, record_buffer[2].coords) = 2 * args_sep

\* ------------------------------------------------------------------- C19
\* number of places in the store where the row is listed
Multiplicity(row) ==
    Cardinality(UNION {{<<i, j>> : j \in {k \in 1..Len(store[i].data) : store[i].data[k] = row}} :
                          i \in 1..Len(store)})

\* the documents of the store that list the row
Holding(row) == {doc \in Range(store) : \E j \in 1..Len(doc.data) : doc.data[j] = row}

\* C19: two runs on one collection can race. A row the collection held at
\* the start is never listed more than twice, and it is listed twice only
\* when both runs merged a store record, the second delete removing nothing.
C19_DuplicateOnlyWhenBothRunsMerged ==
    \A row \in RowsAtStart :
        /\ Multiplicity(row) <= 2
        /\ Multiplicity(row) = 2 =>
              /\ other.merged >= 1
              /\ total_record_count < n_rows
              /\ other.pc = "Done"

\* both runs merged the one record the collection held and each inserted its
\* own merged record: the row of that record is now in two store records
C19_Witness ==
    /\ pc = "Done"
    /\ other.pc = "Done"
    /\ Len(store0) = 1
    /\ other.merged = 1
    /\ store0[1] \notin Range(store)
    /\ Len(store) = 2
    /\ other.written \in Range(store)
    /\ \E d \in Range(written) :
          /\ d \in Range(store)
          /\ d # other.written
          /\ Holding(store0[1].data[1]) = {d, other.written}

\* ------------------------------------------------------------------- C21
\* C21: at every progress report (the loop is back at reading after a flush)
\* and at Done the inserted counter is at most the total counter, and at
\* Done the two are equal.
C21_InsertedAtMostTotal ==
    /\ pc \in {"Reading", "Done"} => inserted_record_count <= total_record_count
    /\ pc = "Done" => inserted_record_count = total_record_count

\* ------------------------------------------------------------------- C22
\* the drain has started with nothing in the buffer
EmptyDrain == draining /\ record_buffer = <<>>

\* C22: a drain that starts with an empty buffer runs no query and deletes
\* nothing; its one step is the call of the batch insert with an empty
\* batch, which inserts nothing and is not repeated. With a flush threshold
\* of 1 the buffer is always empty when the rows are exhausted.
C22_EmptyDrainOnlyInsertsEmptyBatch ==
    /\ [](EmptyDrain =>
            /\ pc \in {"Flush", "Crashed"}
            /\ idx > Len(record_buffer)
            /\ final_record_list = <<>>
            /\ cursor = <<>>)
    /\ [](args_buffer = 1 /\ draining => record_buffer = <<>>)
    /\ [][pc = "Reading" /\ draining' /\ record_buffer = <<>> =>
            pc' = "Flush" /\ final_record_list' = <<>>]_vars
    /\ [][EmptyDrain /\ pc = "Flush" =>
            /\ pc' # "Flush"
            /\ pc' # "Compare"
            /\ store' = store
            /\ cursor' = cursor
            /\ deleted' = deleted
            /\ written' = written
            /\ inserted_record_count' = inserted_record_count]_vars

\* with the default flush threshold the last of two rows was flushed, the
\* drain found the buffer empty and has called the batch insert
C22_Witness ==
    /\ args_buffer = 1
    /\ EmptyDrain
    /\ row_index = 3
    /\ Len(written) = 2
    /\ pc # "Flush"

====
